---- MODULE Spec2Model ----
(***************************************************************************)
(* Blanket v6.4 (blanket_system.py): the image validator, the web image    *)
(* ingestor, the pattern scanner, the JSON event log and the command       *)
(* dispatcher, with the GUI's one-thread-per-click scheduling.             *)
(*                                                                         *)
(* Five specifications share the variables below:                          *)
(*   SpecValidate  OnlineImageChecker.validate on one HEAD response        *)
(*   SpecClone     WebImageIngestor.clone, one loop iteration per step     *)
(*   Spec          BlanketCore.execute called sequentially                 *)
(*   SpecLog       ConsciousMemory.record on any content of the log file   *)
(*   SpecThreads   BlanketApp's background threads racing on the log file  *)
(***************************************************************************)
EXTENDS Integers, Sequences, FiniteSets, TLC

VARIABLES
    store,        \* DATA_DIR: set of files [name, data]
    logfile,      \* MEMORY_FILE: [kind, events]
    pc,           \* position of the sequential caller / of clone's loop
    page,         \* clone: soup.find_all("img"), in document order
    idx,          \* clone: position of the for loop in page (1-based)
    count,        \* clone: the accepted counter
    limit,        \* clone: the limit argument
    result,       \* return value of the last finished call
    store0,       \* history: store when the current clone run began
    accepted,     \* history: positions accepted in this run
    writes,       \* history: number of file writes of this run
    everAccepted, \* history: every payload accepted in any run
    calls,        \* history: the commands passed to execute, in order of call
    netreqs,      \* history: network requests [method, pos] of the latest call
    resp,         \* validate: the HEAD outcome
    verdict,      \* validate: what validate returned
    tpc,          \* per thread: its position inside execute
    tcmd,         \* per thread: its frame (command, page, loop position, counter)
    tdata         \* per thread: the document record() read

vars == <<store, logfile, pc, page, idx, count, limit, result, store0,
          accepted, writes, everAccepted, calls, netreqs, resp, verdict,
          tpc, tcmd, tdata>>

cloneVars == <<page, idx, count, limit, store0, accepted, writes>>
validateVars == <<resp, verdict>>
threadVars == <<tpc, tcmd, tdata>>

(***************************************************************************)
(* Bounds of the model.                                                    *)
(***************************************************************************)
\* number of distinct image payloads that pass Image.open(..).verify()
NumPayloads == 2
\* longest list of img elements on a page
MaxImgs == 3
\* largest explicit limit argument tried besides the default
MaxLimit == 2
\* longest page offered to execute("CLONE", url)
MaxExecImgs == 1
\* number of sequential execute / record calls explored
MaxCalls == 3
\* number of GUI background threads (button presses) in flight
NumThreads == 2

(***************************************************************************)
(* Program constants.                                                      *)
(***************************************************************************)
\* size > 15_000_000
SizeCeiling == 15000000
\* def clone(self, url, limit=40)
DefaultLimit == 40

(***************************************************************************)
(* Strings are sequences of one-character strings, so that lower(), the    *)
(* substring test and int() are computed rather than assumed.              *)
(***************************************************************************)
UpperLetters ==
    <<"A", "B", "C", "D", "E", "F", "G", "H", "I", "J", "K", "L", "M",
      "N", "O", "P", "Q", "R", "S", "T", "U", "V", "W", "X", "Y", "Z">>

LowerLetters ==
    <<"a", "b", "c", "d", "e", "f", "g", "h", "i", "j", "k", "l", "m",
      "n", "o", "p", "q", "r", "s", "t", "u", "v", "w", "x", "y", "z">>

\* str.lower() on the ASCII upper-case letters
LowerOf ==
    [c \in {UpperLetters[k] : k \in DOMAIN UpperLetters} |->
        LowerLetters[CHOOSE k \in DOMAIN UpperLetters : UpperLetters[k] = c]]

\* str.lower() on one ASCII character
LowerChar(c) == IF c \in DOMAIN LowerOf THEN LowerOf[c] ELSE c

Lower(s) == [i \in DOMAIN s |-> LowerChar(s[i])]

Contains(needle, hay) ==
    \E i \in 0..(Len(hay) - Len(needle)) :
        SubSeq(hay, i + 1, i + Len(needle)) = needle

Digits == <<"0", "1", "2", "3", "4", "5", "6", "7", "8", "9">>

IsDigit(c) == \E d \in DOMAIN Digits : Digits[d] = c

DigitValue(c) == (CHOOSE d \in DOMAIN Digits : Digits[d] = c) - 1

RECURSIVE DigitsValue(_)
DigitsValue(s) ==
    IF s = <<>> THEN 0
    ELSE DigitsValue(SubSeq(s, 1, Len(s) - 1)) * 10 + DigitValue(s[Len(s)])

\* chr(11), the vertical tab
VerticalTab == ""

\* The ASCII characters int() strips from both ends: chr(9)..chr(13), chr(32).
Whitespace == {" ", "\t", "\n", VerticalTab, "\f", "\r"}

RECURSIVE StripLeft(_)
StripLeft(s) ==
    IF s # <<>> /\ s[1] \in Whitespace THEN StripLeft(Tail(s)) ELSE s

RECURSIVE StripRight(_)
StripRight(s) ==
    IF s # <<>> /\ s[Len(s)] \in Whitespace
    THEN StripRight(SubSeq(s, 1, Len(s) - 1)) ELSE s

Strip(s) == StripRight(StripLeft(s))

\* The stripped literal without its sign.
Unsigned(s) ==
    LET t == Strip(s)
    IN  IF t # <<>> /\ t[1] \in {"+", "-"} THEN Tail(t) ELSE t

\* int(str) does not raise ValueError: surrounding whitespace, an optional
\* sign, then decimal digits with single underscores between digits.
\* (ASCII only: non-ASCII digits and blanks are not modelled.)
IntParses(s) ==
    LET body == Unsigned(s)
    IN  /\ body # <<>>
        /\ IsDigit(body[1])
        /\ IsDigit(body[Len(body)])
        /\ \A i \in DOMAIN body : IsDigit(body[i]) \/ body[i] = "_"
        /\ \A i \in 1..(Len(body) - 1) : ~(body[i] = "_" /\ body[i + 1] = "_")

\* int(str), for a string that parses
IntValue(s) ==
    LET t == Strip(s)
        neg == t # <<>> /\ t[1] = "-"
        digits == SelectSeq(Unsigned(s), IsDigit)
    IN  IF neg THEN 0 - DigitsValue(digits) ELSE DigitsValue(digits)

S_image == <<"i", "m", "a", "g", "e">>

\* A response header: absent, or present with a value.
Absent == [present |-> FALSE, value |-> <<>>]

Hdr(v) == [present |-> TRUE, value |-> v]

ContentTypeValues ==
    { <<>>,
      <<"i", "m", "a", "g", "e", "/", "p", "n", "g">>,
      <<"I", "M", "A", "G", "E", "/", "P", "N", "G">>,
      <<"I", "m", "a", "g", "e", "/", "g", "i", "f">>,
      <<"t", "e", "x", "t", "/", "h", "t", "m", "l">>,
      <<"i", "m", "a", "g">>,
      <<"x", "-", "i", "m", "A", "G", "e">>,
      <<"i", "m", "a", "-", "g", "e">>,
      <<"T", "E", "X", "T", "/", "H", "T", "M", "L">>,
      <<"I", "m", "a", "g", "e", "/", "J", "P", "E", "G">>,
      <<"A", "P", "P", "L", "I", "C", "A", "T", "I", "O", "N", "/", "X", "-",
        "I", "M", "A", "G", "E">> }

ContentLengthValues ==
    { <<"0">>,
      <<"1", "4", "9", "9", "9", "9", "9", "9">>,
      <<"1", "5", "0", "0", "0", "0", "0", "0">>,
      <<"1", "5", "0", "0", "0", "0", "0", "1">>,
      <<"9", "9", "9", "9", "9", "9", "9", "9">>,
      <<"-", "1">>,
      <<"a", "b", "c">>,
      <<>>,
      <<" ", "4", "2">>,
      <<"4", "2", " ">>,
      <<"1", "_", "0">>,
      <<"1", "5", "_", "0", "0", "0", "_", "0", "0", "1">>,
      <<"+", "7">>,
      <<"1", "_", "_", "0">>,
      <<"_", "1">>,
      <<"1", "_">>,
      <<"+", " ", "1">>,
      <<" ">>,
      <<"-">>,
      <<VerticalTab, "4", "2">>,
      <<"4", "2", VerticalTab>>,
      <<VerticalTab, "-", "7">>,
      <<" ", VerticalTab, " ", "7", " ">>,
      <<"\n", "1", "5", "0", "0", "0", "0", "0", "1", "\r">> }

ContentTypes == {Absent} \cup {Hdr(v) : v \in ContentTypeValues}

ContentLengths == {Absent} \cup {Hdr(v) : v \in ContentLengthValues}

\* Outcome of requests.head: an exception, or a response with its headers.
HeadRaises == [ok |-> FALSE, ctype |-> Absent, clen |-> Absent]

HeadResponses ==
    {HeadRaises} \cup [ok : {TRUE}, ctype : ContentTypes, clen : ContentLengths]

(***************************************************************************)
(* OnlineImageChecker.validate                                             *)
(***************************************************************************)
\* r.headers.get("Content-Type", "")
HeaderCtype(r) == IF r.ctype.present THEN r.ctype.value ELSE <<>>

\* int(r.headers.get("Content-Length", 0)) raises ValueError
SizeRaises(r) == r.clen.present /\ ~IntParses(r.clen.value)

\* int(r.headers.get("Content-Length", 0))
HeaderSize(r) == IF r.clen.present THEN IntValue(r.clen.value) ELSE 0

\* "image" not in ctype.lower()
TypeRejected(ctype) == ~Contains(S_image, Lower(ctype))

\* Mutant: a body of exactly the ceiling is rejected.
SizeRejected_inclusive(size) == size >= SizeCeiling

\* size > 15_000_000
SizeRejected(size) == size > SizeCeiling

validate(r) ==
    IF ~r.ok THEN FALSE                           \* except: return False
    ELSE IF SizeRaises(r) THEN FALSE              \* except: return False
    ELSE IF TypeRejected(HeaderCtype(r)) THEN FALSE
    ELSE IF SizeRejected(HeaderSize(r)) THEN FALSE
    ELSE TRUE

(***************************************************************************)
(* The web as clone sees it.  A response body is HTML, a sound image, or   *)
(* an image whose header parses but whose pixel data is cut short (it      *)
(* passes verify() and fails a full decode).                               *)
(***************************************************************************)
HtmlBody == [verifies |-> FALSE, loads |-> FALSE, id |-> 0]

ImageBody(i) == [verifies |-> TRUE, loads |-> TRUE, id |-> i]

TruncatedBody == [verifies |-> TRUE, loads |-> FALSE, id |-> 0]

\* No bytes: the content of a file that open(.., "wb") has just created or
\* truncated.
NoBytes == [verifies |-> FALSE, loads |-> FALSE, id |-> -1]

\* Image.open(io.BytesIO(data)).verify() does not raise
Verifies(data) == data.verifies

\* Image.open(path).resize((64,64)); np.array(img) does not raise
Loads(data) == data.loads

\* Outcome of requests.get(src).content: an exception, or the body.
GetRaises == [ok |-> FALSE, body |-> HtmlBody]

GetBody(b) == [ok |-> TRUE, body |-> b]

HeadImage ==
    [ok |-> TRUE, ctype |-> Hdr(<<"I", "m", "a", "g", "e", "/", "g", "i", "f">>),
     clen |-> Absent]

HeadHtml ==
    [ok |-> TRUE, ctype |-> Hdr(<<"t", "e", "x", "t", "/", "h", "t", "m", "l">>),
     clen |-> Hdr(<<"0">>)]

\* img elements: src is "absent" (no src, or an empty one), "malformed"
\* (urljoin raises ValueError, e.g. src="//[") or "ok".
NoSrc == [src |-> "absent", head |-> HeadRaises, get |-> GetRaises]

BadSrc == [src |-> "malformed", head |-> HeadRaises, get |-> GetRaises]

Rejected == [src |-> "ok", head |-> HeadHtml, get |-> GetBody(HtmlBody)]

FetchFails == [src |-> "ok", head |-> HeadImage, get |-> GetRaises]

NotAnImage == [src |-> "ok", head |-> HeadImage, get |-> GetBody(HtmlBody)]

Img(b) == [src |-> "ok", head |-> HeadImage, get |-> GetBody(b)]

ImgElements ==
    {NoSrc, BadSrc, Rejected, FetchFails, NotAnImage}
        \cup {Img(ImageBody(i)) : i \in 1..NumPayloads}

SeqsUpTo(S, n) == UNION {[1..k -> S] : k \in 0..n}

Pages == SeqsUpTo(ImgElements, MaxImgs)

Limits == (0..MaxLimit) \cup {DefaultLimit}

(***************************************************************************)
(* The image store (DATA_DIR).                                             *)
(***************************************************************************)
\* hashlib.md5(data).hexdigest(): a function of the bytes alone, without
\* collisions on the payloads of the model.
Md5(data) ==
    data.id * 4 + (IF data.verifies THEN 2 ELSE 0) + (IF data.loads THEN 1 ELSE 0)

\* name = hashlib.md5(data).hexdigest() + ".jpg"
FileName(data) == [stem |-> Md5(data), ext |-> "jpg"]

\* open(path, "wb").write(data): creates the file or replaces its content
WriteFile(dir, name, data) ==
    {f \in dir : f.name # name} \cup {[name |-> name, data |-> data]}

\* open(path, "wb"): creates the file, or truncates it to no bytes
OpenFile(dir, name) == WriteFile(dir, name, NoBytes)

StoredData(dir) == {f.data : f \in dir}

(***************************************************************************)
(* WebImageIngestor.clone                                                  *)
(***************************************************************************)
Request(method, pos) == [method |-> method, pos |-> pos]

\* Mutant: the break test is off by one.
LoopBreaks_late(cnt, lim) == cnt > lim

\* if count >= limit: break
LoopBreaks(cnt, lim) == cnt >= lim

\* Mutant: files are named by arrival number instead of by content.
StoreImage_numbered(dir, data) ==
    WriteFile(dir, [stem |-> Cardinality(dir), ext |-> "jpg"], data)

\* name = md5(data) + ".jpg"; open(os.path.join(DATA_DIR, name), "wb").write(data)
StoreImage(dir, data) == WriteFile(dir, FileName(data), data)

\* Mutant: the body is written before it is verified.
CloneBody_writefirst(img, i, s) ==
    IF img.src = "absent" THEN s
    ELSE IF img.src = "malformed" THEN [s EXCEPT !.raised = TRUE]
    ELSE LET s1 == [s EXCEPT !.reqs = @ \cup {Request("HEAD", i)}]
             s2 == [s1 EXCEPT !.reqs = @ \cup {Request("GET", i)}]
             data == img.get.body
         IN  IF validate(img.head) # TRUE THEN s1
             ELSE IF ~img.get.ok THEN s2
             ELSE IF ~Verifies(data)
                  THEN [s2 EXCEPT !.store = StoreImage(@, data), !.writes = @ + 1]
             ELSE [s2 EXCEPT !.store = StoreImage(@, data),
                             !.writes = @ + 1,
                             !.accepted = @ \cup {i},
                             !.count = @ + 1]

\* Mutant: content that is already stored is skipped and not counted.
CloneBody_dedup(img, i, s) ==
    IF img.src = "absent" THEN s
    ELSE IF img.src = "malformed" THEN [s EXCEPT !.raised = TRUE]
    ELSE LET s1 == [s EXCEPT !.reqs = @ \cup {Request("HEAD", i)}]
             s2 == [s1 EXCEPT !.reqs = @ \cup {Request("GET", i)}]
             data == img.get.body
         IN  IF validate(img.head) # TRUE THEN s1
             ELSE IF ~img.get.ok THEN s2
             ELSE IF ~Verifies(data) THEN s2
             ELSE IF \E f \in s.store : f.data = data THEN s2
             ELSE [s2 EXCEPT !.store = StoreImage(@, data),
                             !.writes = @ + 1,
                             !.accepted = @ \cup {i},
                             !.count = @ + 1]

\* Lines 106-125: one iteration of the for loop on the element at position i.
\* s = [count, store, reqs, writes, accepted, raised].
CloneBody(img, i, s) ==
    IF img.src = "absent" THEN s                                   \* continue
    ELSE IF img.src = "malformed" THEN [s EXCEPT !.raised = TRUE]  \* urljoin
    ELSE LET s1 == [s EXCEPT !.reqs = @ \cup {Request("HEAD", i)}]
             s2 == [s1 EXCEPT !.reqs = @ \cup {Request("GET", i)}]
             data == img.get.body
         IN  IF validate(img.head) # TRUE THEN s1                  \* continue
             ELSE IF ~img.get.ok THEN s2                           \* except
             ELSE IF ~Verifies(data) THEN s2                       \* except
             ELSE [s2 EXCEPT !.store = StoreImage(@, data),
                             !.writes = @ + 1,
                             !.accepted = @ \cup {i},
                             !.count = @ + 1]

\* f"Ingested {count} validated images."
Summary(n) == [text |-> "Ingested validated images.", n |-> n]

NoResult == [text |-> "", n |-> 0]

Raised == [text |-> "raised", n |-> 0]

CloneState ==
    [count |-> count, store |-> store, reqs |-> netreqs, writes |-> writes,
     accepted |-> accepted, raised |-> FALSE]

\* clone(url, limit): requests.get(url) raised; the exception propagates.
CloneFetchFails ==
    /\ pc = "idle"
    /\ \E l \in Limits : limit' = l
    /\ pc' = "raised"
    /\ result' = Raised
    /\ page' = <<>>
    /\ idx' = 1
    /\ count' = 0
    /\ store0' = store
    /\ accepted' = {}
    /\ writes' = 0
    /\ netreqs' = {Request("GET", 0)}
    /\ UNCHANGED <<store, logfile, everAccepted, calls, validateVars, threadVars>>

\* clone(url, limit): the page was fetched and parsed; the loop begins.
CloneCall ==
    /\ pc = "idle"
    /\ \E p \in Pages : page' = p
    /\ \E l \in Limits : limit' = l
    /\ pc' = "loop"
    /\ result' = NoResult
    /\ idx' = 1
    /\ count' = 0
    /\ store0' = store
    /\ accepted' = {}
    /\ writes' = 0
    /\ netreqs' = {Request("GET", 0)}
    /\ UNCHANGED <<store, logfile, everAccepted, calls, validateVars, threadVars>>

\* One iteration of "for img in soup.find_all('img')".
LoopIter ==
    /\ pc = "loop"
    /\ idx <= Len(page)
    /\ ~LoopBreaks(count, limit)
    /\ LET s == CloneBody(page[idx], idx, CloneState)
       IN  /\ count' = s.count
           /\ store' = s.store
           /\ netreqs' = s.reqs
           /\ writes' = s.writes
           /\ accepted' = s.accepted
           /\ everAccepted' =
                everAccepted \cup {page[i].get.body : i \in s.accepted}
           /\ pc' = IF s.raised THEN "raised" ELSE "loop"
           /\ result' = IF s.raised THEN Raised ELSE result
    /\ idx' = idx + 1
    /\ UNCHANGED <<page, limit, store0, logfile, calls, validateVars, threadVars>>

\* The loop is left by break; the summary is returned.
LoopBreak ==
    /\ pc = "loop"
    /\ idx <= Len(page)
    /\ LoopBreaks(count, limit)
    /\ pc' = "done"
    /\ result' = Summary(count)
    /\ UNCHANGED <<store, logfile, page, idx, count, limit, store0, accepted,
                   writes, everAccepted, calls, netreqs, validateVars, threadVars>>

\* The loop ran out of img elements; the summary is returned.
LoopExhausted ==
    /\ pc = "loop"
    /\ idx > Len(page)
    /\ pc' = "done"
    /\ result' = Summary(count)
    /\ UNCHANGED <<store, logfile, page, idx, count, limit, store0, accepted,
                   writes, everAccepted, calls, netreqs, validateVars, threadVars>>

\* The call has returned or raised: its locals are gone, the store remains.
CloneReturn ==
    /\ pc \in {"done", "raised"}
    /\ pc' = "idle"
    /\ page' = <<>>
    /\ idx' = 1
    /\ count' = 0
    /\ limit' = DefaultLimit
    /\ result' = NoResult
    /\ store0' = store
    /\ accepted' = {}
    /\ writes' = 0
    /\ netreqs' = {}
    /\ UNCHANGED <<store, logfile, everAccepted, calls, validateVars, threadVars>>

EmptyLog == [kind |-> "doc", events |-> <<>>]

InitClone ==
    /\ store = {}
    /\ logfile = EmptyLog
    /\ pc = "idle"
    /\ page = <<>>
    /\ idx = 1
    /\ count = 0
    /\ limit = DefaultLimit
    /\ result = NoResult
    /\ store0 = {}
    /\ accepted = {}
    /\ writes = 0
    /\ everAccepted = {}
    /\ calls = <<>>
    /\ netreqs = {}
    /\ resp = HeadRaises
    /\ verdict = "none"
    /\ tpc = <<>>
    /\ tcmd = <<>>
    /\ tdata = <<>>

NextClone ==
    \/ CloneFetchFails
    \/ CloneCall
    \/ LoopIter
    \/ LoopBreak
    \/ LoopExhausted
    \/ CloneReturn

SpecClone == InitClone /\ [][NextClone]_vars

\* The whole of clone as one function of the page fetch, the limit and the
\* store: the for loop from position i on.
RECURSIVE CloneLoop(_, _, _, _)
CloneLoop(pg, i, lim, s) ==
    IF s.raised \/ i > Len(pg) \/ LoopBreaks(s.count, lim) THEN s
    ELSE CloneLoop(pg, i + 1, lim, CloneBody(pg[i], i, s))

\* Outcome of requests.get(url).text at line 99: an exception, or the page.
FetchRaises == [ok |-> FALSE, imgs |-> <<>>]

Fetched(pg) == [ok |-> TRUE, imgs |-> pg]

clone(fetch, lim, dir) ==
    LET s0 == [count |-> 0, store |-> dir, reqs |-> {Request("GET", 0)},
               writes |-> 0, accepted |-> {}, raised |-> FALSE]
    IN  IF ~fetch.ok THEN [s0 EXCEPT !.raised = TRUE]
        ELSE CloneLoop(fetch.imgs, 1, lim, s0)

(***************************************************************************)
(* PatternEngine.extract                                                   *)
(***************************************************************************)
extract(dir) == Cardinality({f \in dir : Loads(f.data)})

(***************************************************************************)
(* ConsciousMemory: the event log file.                                    *)
(* kind: "missing"; "empty" (zero bytes, as left by open(.., "w"));        *)
(* "garbage" (not JSON); "null", "array" (JSON, not an object); "object"   *)
(* (an object without "events"); "badevents" ("events" is not a list);     *)
(* "doc" ({"events": [...]}).                                              *)
(***************************************************************************)
LogFile(kind) == [kind |-> kind, events |-> <<>>]

Doc(evs) == [kind |-> "doc", events |-> evs]

\* json.load(f) raises, or open() does
ReadFails(file) == file.kind \in {"missing", "empty", "garbage"}

\* _read: the parsed document, or {"events": []} on any exception
Read(file) == IF ReadFails(file) THEN Doc(<<>>) ELSE file

\* Mutant: _write appends the new entry to what the file holds.
Write_append(file, data) ==
    IF file.kind = "doc" /\ data.events # <<>>
    THEN Doc(Append(file.events, data.events[Len(data.events)]))
    ELSE data

\* _write: the file is replaced by json.dump(data)
Write(file, data) == data

Event(now, perception, analysis) ==
    [time |-> now, perception |-> perception, analysis |-> analysis]

\* data["events"].append(..) raises KeyError, TypeError or AttributeError
AppendRaises(data) == data.kind # "doc"

\* data["events"].append({...})
Appended(data, ev) == Doc(Append(data.events, ev))

\* record(perception, analysis): [raised, file]
record(file, perception, analysis, now) ==
    LET data == Read(file)
    IN  IF AppendRaises(data) THEN [raised |-> TRUE, file |-> file]
        ELSE [raised |-> FALSE,
              file |-> Write(file, Appended(data, Event(now, perception, analysis)))]

(***************************************************************************)
(* SelfWhyEngine.analyze, CodeIntrospection.explain, BlanketCore.execute   *)
(***************************************************************************)
analyze(action, intent, module) == [intent |-> intent, executor |-> module]

explain(obj) == [module |-> obj]

Analysis(res, cmd, module) ==
    [why |-> analyze(res, cmd, module), structure |-> explain("BlanketCore")]

\* f"{count} patterns internalized."
Patterns(n) == [text |-> "patterns internalized.", n |-> n]

Unknown == [text |-> "Unknown command", n |-> 0]

Outcome(raised, res, module, dir, reqs) ==
    [raised |-> raised, result |-> res, module |-> module, store |-> dir,
     reqs |-> reqs]

\* Mutant: the command name is matched without regard to case.
Dispatch_anycase(cmd, fetch, dir) ==
    IF cmd \in {"CLONE", "clone"}
    THEN LET c == clone(fetch, DefaultLimit, dir)
         IN  Outcome(c.raised, Summary(c.count), "WebImageIngestor", c.store, c.reqs)
    ELSE IF cmd = "LEARN"
    THEN Outcome(FALSE, Patterns(extract(dir)), "PatternEngine", dir, {})
    ELSE Outcome(FALSE, Unknown, "Core", dir, {})

\* Lines 152-161: the if / elif / else of execute.
Dispatch(cmd, fetch, dir) ==
    IF cmd = "CLONE"
    THEN LET c == clone(fetch, DefaultLimit, dir)
         IN  Outcome(c.raised, Summary(c.count), "WebImageIngestor", c.store, c.reqs)
    ELSE IF cmd = "LEARN"
    THEN Outcome(FALSE, Patterns(extract(dir)), "PatternEngine", dir, {})
    ELSE Outcome(FALSE, Unknown, "Core", dir, {})

Cmds == {"CLONE", "LEARN", "UNKNOWN", "clone"}

\* Pages offered to execute("CLONE", url): they also serve a cut-short image.
ExecPages == SeqsUpTo(ImgElements \cup {Img(TruncatedBody)}, MaxExecImgs)

\* The payload matters to CLONE only.
Payloads(cmd) ==
    IF cmd = "CLONE" THEN {FetchRaises} \cup {Fetched(pg) : pg \in ExecPages}
    ELSE {FetchRaises}

\* execute(cmd, payload), from call to return or raise.
Execute ==
    /\ pc = "idle"
    /\ Len(calls) < MaxCalls
    /\ \E cmd \in Cmds : \E fetch \in Payloads(cmd) :
        LET d == Dispatch(cmd, fetch, store)
            r == record(logfile, cmd, Analysis(d.result, cmd, d.module), Len(calls) + 1)
        IN  /\ calls' = Append(calls, cmd)
            /\ store' = d.store
            /\ netreqs' = d.reqs
            /\ everAccepted' = everAccepted \cup StoredData(d.store \ store)
            /\ IF d.raised
               THEN result' = Raised /\ logfile' = logfile
               ELSE IF r.raised
               THEN result' = Raised /\ logfile' = logfile
               ELSE result' = d.result /\ logfile' = r.file
    /\ pc' = "returned"
    /\ UNCHANGED <<cloneVars, validateVars, threadVars>>

\* The caller has the result (or the exception); execute's frame is gone.
ExecuteReturn ==
    /\ pc = "returned"
    /\ pc' = "idle"
    /\ result' = NoResult
    /\ netreqs' = {}
    /\ UNCHANGED <<store, logfile, everAccepted, calls, cloneVars, validateVars,
                   threadVars>>

\* After construction: ConsciousMemory() has written {"events": []}.
Init == InitClone

Next == Execute \/ ExecuteReturn

Spec == Init /\ [][Next]_vars

(***************************************************************************)
(* SpecLog: record() called on a log file of any content.                  *)
(***************************************************************************)
StrayEvents == {Event(0, c, Analysis(Unknown, c, "Core")) : c \in {"LEARN", "UNKNOWN"}}

LogContents ==
    {LogFile(k) : k \in {"missing", "empty", "garbage", "null", "array", "object",
                         "badevents"}}
        \cup {Doc(evs) : evs \in SeqsUpTo(StrayEvents, 1)}

InitLog ==
    /\ logfile \in LogContents
    /\ store = {}
    /\ pc = "idle"
    /\ page = <<>>
    /\ idx = 1
    /\ count = 0
    /\ limit = DefaultLimit
    /\ result = NoResult
    /\ store0 = {}
    /\ accepted = {}
    /\ writes = 0
    /\ everAccepted = {}
    /\ calls = <<>>
    /\ netreqs = {}
    /\ resp = HeadRaises
    /\ verdict = "none"
    /\ tpc = <<>>
    /\ tcmd = <<>>
    /\ tdata = <<>>

\* memory.record(perception, analysis)
RecordCall ==
    /\ Len(calls) < MaxCalls
    /\ \E cmd \in Cmds :
        LET r == record(logfile, cmd, Analysis(Unknown, cmd, "Core"), Len(calls) + 1)
        IN  /\ calls' = Append(calls, cmd)
            /\ logfile' = r.file
            /\ result' = IF r.raised THEN Raised ELSE NoResult
    /\ UNCHANGED <<store, pc, everAccepted, netreqs, cloneVars, validateVars,
                   threadVars>>

NextLog == RecordCall

SpecLog == InitLog /\ [][NextLog]_vars

(***************************************************************************)
(* SpecThreads: start_clone / start_learn start one daemon thread per      *)
(* click, each running execute once.  A thread's steps end where it can    *)
(* be overtaken: at each network request of clone and validate, at the     *)
(* open(.., "wb") and the write of an image file, and at record's _read,   *)
(* its truncating open(.., "w") and its json.dump.                         *)
(* Nothing orders the steps of different threads.                          *)
(***************************************************************************)
Threads == 1..NumThreads

\* The two buttons of BlanketApp.
ButtonCmds == {"CLONE", "LEARN"}

\* What the URL of a CLONE click may lead to: the page cannot be fetched, or
\* it lists at most one img element of any kind clone tells apart.
ButtonPayloads(cmd) ==
    IF cmd = "CLONE"
    THEN {FetchRaises}
           \cup {Fetched(pg) :
                   pg \in SeqsUpTo({NoSrc, BadSrc, Rejected, FetchFails, NotAnImage,
                                    Img(ImageBody(NumPayloads))}, 1)}
    ELSE {FetchRaises}

\* json.dump into a file this thread truncated: if another thread has put
\* bytes there since, the two writes overlay each other byte by byte.
Dumped(file, data) ==
    IF file.kind = "empty" THEN {Write(file, data)}
    ELSE {Write(file, data), LogFile("garbage")}

\* A thread's frame: its command, the module that serves it, and clone's
\* page, loop position and counter.
Frame(cmd, module, fetch, i, cnt) ==
    [cmd |-> cmd, module |-> module, fetch |-> fetch, idx |-> i, count |-> cnt]

NoFrame == Frame("", "", FetchRaises, 1, 0)

\* Where clone's loop stops next, from position i with counter cnt: at the
\* HEAD request of the first element that has a src, at the end of clone
\* ("record": execute goes on to memory.record), or in urljoin's ValueError.
RECURSIVE NextWait(_, _, _)
NextWait(pg, i, cnt) ==
    IF i > Len(pg) \/ LoopBreaks(cnt, DefaultLimit) THEN [at |-> "record", idx |-> i]
    ELSE IF pg[i].src = "absent" THEN NextWait(pg, i + 1, cnt)
    ELSE IF pg[i].src = "malformed" THEN [at |-> "died", idx |-> i]
    ELSE [at |-> "head", idx |-> i]

InitThreads ==
    /\ tpc = [t \in Threads |-> "new"]
    /\ tcmd = [t \in Threads |-> NoFrame]
    /\ tdata = [t \in Threads |-> Doc(<<>>)]
    /\ store = {}
    /\ logfile = EmptyLog
    /\ pc = "idle"
    /\ page = <<>>
    /\ idx = 1
    /\ count = 0
    /\ limit = DefaultLimit
    /\ result = NoResult
    /\ store0 = {}
    /\ accepted = {}
    /\ writes = 0
    /\ everAccepted = {}
    /\ calls = <<>>
    /\ netreqs = {}
    /\ resp = HeadRaises
    /\ verdict = "none"

\* start_clone / start_learn: the thread starts and enters execute.  CLONE
\* runs up to the page request of line 99; LEARN scans the store (extract
\* changes nothing) and runs up to memory.record.
ThreadStart(t) ==
    /\ tpc[t] = "new"
    /\ \E cmd \in ButtonCmds : \E fetch \in ButtonPayloads(cmd) :
        /\ calls' = Append(calls, cmd)
        /\ IF cmd = "CLONE"
           THEN /\ tcmd' = [tcmd EXCEPT ![t] = Frame(cmd, "WebImageIngestor", fetch, 1, 0)]
                /\ tpc' = [tpc EXCEPT ![t] = "page"]
           ELSE LET d == Dispatch(cmd, fetch, store)
                IN  /\ tcmd' = [tcmd EXCEPT ![t] = Frame(cmd, d.module, fetch, 1, 0)]
                    /\ tpc' = [tpc EXCEPT ![t] = "record"]
    /\ UNCHANGED <<store, logfile, pc, result, everAccepted, netreqs, tdata,
                   cloneVars, validateVars>>

\* requests.get(url) of line 99 returns or raises; the page is parsed and
\* the loop runs to its first request.
ThreadPage(t) ==
    /\ tpc[t] = "page"
    /\ LET f == tcmd[t].fetch
           w == NextWait(f.imgs, 1, 0)
       IN  IF ~f.ok
           THEN /\ tpc' = [tpc EXCEPT ![t] = "died"]
                /\ tcmd' = tcmd
           ELSE /\ tpc' = [tpc EXCEPT ![t] = w.at]
                /\ tcmd' = [tcmd EXCEPT ![t].idx = w.idx]
    /\ UNCHANGED <<store, logfile, pc, result, everAccepted, calls, netreqs, tdata,
                   cloneVars, validateVars>>

\* requests.head of validate returns or raises: a rejected element is left
\* by continue, an admitted one goes on to its body request.
ThreadHead(t) ==
    /\ tpc[t] = "head"
    /\ LET f == tcmd[t]
           w == NextWait(f.fetch.imgs, f.idx + 1, f.count)
       IN  IF validate(f.fetch.imgs[f.idx].head) # TRUE
           THEN /\ tpc' = [tpc EXCEPT ![t] = w.at]
                /\ tcmd' = [tcmd EXCEPT ![t].idx = w.idx]
           ELSE /\ tpc' = [tpc EXCEPT ![t] = "get"]
                /\ tcmd' = tcmd
    /\ UNCHANGED <<store, logfile, pc, result, everAccepted, calls, netreqs, tdata,
                   cloneVars, validateVars>>

\* requests.get(src) of line 116 returns or raises, and the body is verified
\* and named (lines 117-119): a failure is swallowed by the except and the
\* loop runs to its next request or to the end of clone.
ThreadGet(t) ==
    /\ tpc[t] = "get"
    /\ LET f == tcmd[t]
           get == f.fetch.imgs[f.idx].get
           w == NextWait(f.fetch.imgs, f.idx + 1, f.count)
       IN  IF get.ok /\ Verifies(get.body)
           THEN /\ tpc' = [tpc EXCEPT ![t] = "create"]
                /\ tcmd' = tcmd
           ELSE /\ tpc' = [tpc EXCEPT ![t] = w.at]
                /\ tcmd' = [tcmd EXCEPT ![t].idx = w.idx]
    /\ UNCHANGED <<store, logfile, pc, result, everAccepted, calls, netreqs, tdata,
                   cloneVars, validateVars>>

\* open(os.path.join(DATA_DIR, name), "wb") of line 120: the file exists and
\* holds no bytes
ThreadCreate(t) ==
    /\ tpc[t] = "create"
    /\ store' = OpenFile(store, FileName(tcmd[t].fetch.imgs[tcmd[t].idx].get.body))
    /\ tpc' = [tpc EXCEPT ![t] = "write"]
    /\ UNCHANGED <<logfile, pc, result, everAccepted, calls, netreqs, tcmd, tdata,
                   cloneVars, validateVars>>

\* f.write(data) and the close that flushes it (line 121), count += 1
\* (line 123), then the loop runs to its next request or to the end of clone.
ThreadWrite(t) ==
    /\ tpc[t] = "write"
    /\ LET f == tcmd[t]
           data == f.fetch.imgs[f.idx].get.body
           w == NextWait(f.fetch.imgs, f.idx + 1, f.count + 1)
       IN  /\ store' = StoreImage(store, data)
           /\ everAccepted' = everAccepted \cup {data}
           /\ tpc' = [tpc EXCEPT ![t] = w.at]
           /\ tcmd' = [tcmd EXCEPT ![t].idx = w.idx, ![t].count = f.count + 1]
    /\ UNCHANGED <<logfile, pc, result, calls, netreqs, tdata, cloneVars,
                   validateVars>>

\* record: data = self._read(); data["events"].append({...})
\* The thread's number stands for time.time(), distinct for each call.
ThreadRead(t) ==
    /\ tpc[t] = "record"
    /\ LET data == Read(logfile)
           ev == Event(t, tcmd[t].cmd, Analysis(NoResult, tcmd[t].cmd, tcmd[t].module))
       IN  IF AppendRaises(data)
           THEN /\ tpc' = [tpc EXCEPT ![t] = "died"]
                /\ tdata' = tdata
           ELSE /\ tpc' = [tpc EXCEPT ![t] = "open"]
                /\ tdata' = [tdata EXCEPT ![t] = Appended(data, ev)]
    /\ UNCHANGED <<store, logfile, pc, result, everAccepted, calls, netreqs, tcmd,
                   cloneVars, validateVars>>

\* _write: open(MEMORY_FILE, "w") truncates the file
ThreadOpen(t) ==
    /\ tpc[t] = "open"
    /\ logfile' = LogFile("empty")
    /\ tpc' = [tpc EXCEPT ![t] = "dump"]
    /\ UNCHANGED <<store, pc, result, everAccepted, calls, netreqs, tcmd, tdata,
                   cloneVars, validateVars>>

\* _write: json.dump(data, f, indent=2) and the close that flushes it
ThreadDump(t) ==
    /\ tpc[t] = "dump"
    /\ logfile' \in Dumped(logfile, tdata[t])
    /\ tpc' = [tpc EXCEPT ![t] = "done"]
    /\ UNCHANGED <<store, pc, result, everAccepted, calls, netreqs, tcmd, tdata,
                   cloneVars, validateVars>>

NextThreads ==
    \E t \in Threads :
        \/ ThreadStart(t)
        \/ ThreadPage(t)
        \/ ThreadHead(t)
        \/ ThreadGet(t)
        \/ ThreadCreate(t)
        \/ ThreadWrite(t)
        \/ ThreadRead(t)
        \/ ThreadOpen(t)
        \/ ThreadDump(t)

SpecThreads == InitThreads /\ [][NextThreads]_vars

(***************************************************************************)
(* SpecValidate: validate() on one HEAD outcome.                           *)
(***************************************************************************)
InitValidate ==
    /\ resp \in HeadResponses
    /\ verdict = "none"
    /\ store = {}
    /\ logfile = EmptyLog
    /\ pc = "idle"
    /\ page = <<>>
    /\ idx = 1
    /\ count = 0
    /\ limit = DefaultLimit
    /\ result = NoResult
    /\ store0 = {}
    /\ accepted = {}
    /\ writes = 0
    /\ everAccepted = {}
    /\ calls = <<>>
    /\ netreqs = {}
    /\ tpc = <<>>
    /\ tcmd = <<>>
    /\ tdata = <<>>

\* checker.validate(url)
ValidateCall ==
    /\ verdict = "none"
    /\ verdict' = IF validate(resp) = TRUE THEN "True" ELSE "False"
    /\ UNCHANGED <<resp, store, logfile, pc, result, everAccepted, calls, netreqs,
                   cloneVars, threadVars>>

NextValidate == ValidateCall

SpecValidate == InitValidate /\ [][NextValidate]_vars

(***************************************************************************)
(* Properties of clone, checked under SpecClone.                           *)
(***************************************************************************)
\* The element passes every step of the loop body.
Passes(img) ==
    /\ img.src = "ok"
    /\ validate(img.head) = TRUE
    /\ img.get.ok
    /\ Verifies(img.get.body)

\* The element is skipped: no src, rejected, not fetched or not decodable.
FailsAStep(img) == img.src = "absent" \/ (img.src = "ok" /\ ~Passes(img))

GoodPositions(pg) == {i \in DOMAIN pg : Passes(pg[i])}

\* The first lim passing positions of the page, in document order.
FirstGood(pg, lim) ==
    LET good == GoodPositions(pg)
    IN  {i \in good : Cardinality({j \in good : j < i}) < lim}

SetMax(S) == CHOOSE m \in S : \A x \in S : x <= m

\* The last position the loop may touch.
Cutoff(pg, lim) ==
    LET first == FirstGood(pg, lim)
    IN  IF lim = 0 THEN 0
        ELSE IF Cardinality(first) = lim THEN SetMax(first)
        ELSE Len(pg)

FileOf(data) == [name |-> FileName(data), data |-> data]

InRun == pc \in {"loop", "done", "raised"}

\* C1: during and after one clone(page, limit) with limit >= 0 the accepted
\* counter never exceeds limit, and the call writes at most limit files.
C1_LimitRespected ==
    (InRun /\ limit >= 0) =>
        /\ count <= limit
        /\ writes <= limit
        /\ Cardinality(store \ store0) <= limit

\* A run that stopped at the limit although more elements would have passed.
C1_Witness ==
    /\ pc = "done"
    /\ limit > 0
    /\ Cardinality(GoodPositions(page)) > limit
    /\ count = limit
    /\ writes = limit

\* C4: every payload accepted in any run has exactly one file in the store,
\* named by its digest; accepting content that is already stored leaves the
\* set of stored files unchanged.
C4_ContentAddressed ==
    /\ [](\A b \in everAccepted :
            /\ Cardinality({f \in store : f.data = b}) = 1
            /\ FileOf(b) \in store)
    /\ [][(pc = "loop" /\ accepted' # accepted
            /\ page[idx].get.body \in StoredData(store)) => store' = store]_vars

\* One run accepted the same payload twice and a payload stored by an
\* earlier run once more; the store holds one file for each.
C4_Witness ==
    /\ pc = "done"
    /\ \E i, j \in accepted : i < j /\ page[i].get.body = page[j].get.body
    /\ \E k \in accepted : page[k].get.body \in StoredData(store0)
    /\ \A b \in everAccepted : Cardinality({f \in store : f.data = b}) = 1

\* C5: an element with no src, a rejected one, one whose fetch fails or whose
\* body does not decode is skipped: nothing is stored or counted, nothing is
\* raised and the loop moves on; the summary reports the number of processed
\* elements that passed every step, and that many files are stored when the
\* store was empty and the payloads differ.
C5_SkipAndCount ==
    /\ [][(pc = "loop" /\ idx' = idx + 1 /\ FailsAStep(page[idx])) =>
            /\ pc' = "loop"
            /\ store' = store
            /\ count' = count
            /\ writes' = writes
            /\ accepted' = accepted]_vars
    /\ [](pc = "done" =>
            LET passed == {i \in 1..(idx - 1) : Passes(page[i])}
            IN  /\ result = Summary(Cardinality(passed))
                /\ (limit > Len(page)) => passed = GoodPositions(page)
                /\ (store0 = {} /\ \A i, j \in passed :
                        page[i].get.body = page[j].get.body => i = j)
                     => Cardinality(store) = result.n)

\* A page whose first element is skipped and whose later elements are two
\* different images: the summary says 2 and 2 files are stored.
C5_Witness ==
    /\ pc = "done"
    /\ store0 = {}
    /\ limit > Len(page)
    /\ Len(page) = MaxImgs
    /\ FailsAStep(page[1])
    /\ page[1].src = "ok"
    /\ result = Summary(MaxImgs - 1)
    /\ Cardinality(store) = MaxImgs - 1

\* C10: a finished run leaves in the store exactly the payloads of the first
\* `limit` passing elements in document order (added to what the store
\* held); the counter is their number, duplicates included, and no element
\* after the one that reached the limit is requested.
C10_FirstLimitKept ==
    pc = "done" =>
        LET first == FirstGood(page, limit)
        IN  /\ store = store0 \cup {FileOf(page[i].get.body) : i \in first}
            /\ accepted = first
            /\ count = Cardinality(first)
            /\ \A r \in netreqs : r.pos <= Cutoff(page, limit)

\* On an empty store a duplicate used up the limit: fewer files than the
\* count, and a later passing element with new content was not taken.
C10_Witness ==
    /\ pc = "done"
    /\ store0 = {}
    /\ count = limit
    /\ Cardinality(store) < count
    /\ \E k \in GoodPositions(page) :
          /\ k > Cutoff(page, limit)
          /\ page[k].get.body \notin StoredData(store)

(***************************************************************************)
(* Properties of validate, checked under SpecValidate.                     *)
(***************************************************************************)
DeclaresImage(r) == Contains(S_image, Lower(HeaderCtype(r)))

DeclaredLengthOk(r) ==
    ~r.clen.present \/ (IntParses(r.clen.value) /\ IntValue(r.clen.value) <= SizeCeiling)

\* C6: validate returns True exactly when the HEAD request succeeded, the
\* declared type contains "image" in any letter case and the declared length
\* (0 when absent) is at most 15,000,000; otherwise it returns False, also
\* when the request or the length's conversion raised.
C6_ValidateIff ==
    verdict # "none" =>
        /\ verdict \in {"True", "False"}
        /\ (verdict = "True") <=> (resp.ok /\ DeclaresImage(resp) /\ DeclaredLengthOk(resp))

\* An upper-case image type with a length of exactly the ceiling is admitted.
C6_Witness ==
    /\ verdict = "True"
    /\ resp.ctype = Hdr(<<"I", "M", "A", "G", "E", "/", "P", "N", "G">>)
    /\ resp.clen = Hdr(<<"1", "5", "0", "0", "0", "0", "0", "0">>)

(***************************************************************************)
(* Properties of execute, checked under Spec, and of record, under SpecLog. *)
(***************************************************************************)
\* This step is one call; the command it was given.
Called == Len(calls') = Len(calls) + 1

CalledCmd == calls'[Len(calls')]

\* after is before with exactly one more event, whose perception is cmd.
OneAppended(before, after, cmd) ==
    /\ after.kind = "doc"
    /\ Len(after.events) = Len(before.events) + 1
    /\ SubSeq(after.events, 1, Len(before.events)) = before.events
    /\ after.events[Len(after.events)].perception = cmd

\* C2: every call of execute, whatever the command and its outcome, appends
\* exactly one event whose perception is the command.
C2_AlwaysRecorded ==
    [][Called => OneAppended(logfile, logfile', CalledCmd)]_vars

\* C3: starting from the empty log, after N sequential calls of execute the
\* log holds N events, the i-th with the i-th call's command.
C3_LogMatchesCalls ==
    pc = "idle" =>
        /\ logfile.kind = "doc"
        /\ Len(logfile.events) = Len(calls)
        /\ \A i \in 1..Len(calls) : logfile.events[i].perception = calls[i]

\* C7: a call of execute with a command other than CLONE and LEARN returns
\* "Unknown command", makes no network request, leaves the image store as
\* it was and appends exactly one event whose perception is the command.
C7_UnknownCommand ==
    [][(Called /\ CalledCmd \notin {"CLONE", "LEARN"}) =>
            /\ result' = Unknown
            /\ netreqs' = {}
            /\ store' = store
            /\ OneAppended(logfile, logfile', CalledCmd)]_vars

\* "clone" was answered with "Unknown command" after an earlier CLONE had
\* stored an image: the store and the earlier event are still there.
C7_Witness ==
    /\ pc = "returned"
    /\ Len(calls) >= 2
    /\ calls[Len(calls)] = "clone"
    /\ result = Unknown
    /\ store # {}
    /\ netreqs = {}
    /\ Len(logfile.events) = 2
    /\ logfile.events[1].perception = "CLONE"
    /\ logfile.events[2].perception = "clone"

\* C9: record on a log file that is missing or does not hold the expected
\* document does not raise and leaves a document with the new event alone.
C9_ResetOnBadLog ==
    [][(Called /\ (logfile.kind # "doc")) =>
            /\ result' # Raised
            /\ logfile'.kind = "doc"
            /\ Len(logfile'.events) = 1
            /\ logfile'.events[1].perception = CalledCmd]_vars

(***************************************************************************)
(* Properties of concurrent calls, checked under SpecThreads.              *)
(***************************************************************************)
HasRead(t) == tpc[t] \in {"open", "dump", "done"}

\* The event thread t appended to the document it read.
OwnEvent(t) == tdata[t].events[Len(tdata[t].events)]

InSeq(e, evs) == \E i \in DOMAIN evs : evs[i] = e

\* Neither of the two threads read a log that held the other's event.
ReadSameLog(t, u) ==
    /\ HasRead(t) /\ HasRead(u)
    /\ ~InSeq(OwnEvent(u), tdata[t].events)
    /\ ~InSeq(OwnEvent(t), tdata[u].events)

\* C8: record's read and its write of the whole file are not atomic: when
\* two threads have both read the log before either's write was visible to
\* the other, the file never holds both of their events, whatever the order
\* of the writes (the last write wins).
C8_LostUpdate ==
    \A t, u \in Threads :
        (t # u /\ ReadSameLog(t, u)) =>
            ~(InSeq(OwnEvent(t), logfile.events) /\ InSeq(OwnEvent(u), logfile.events))

\* Two threads read the same log and both finished writing: the log is a
\* well-formed document holding one new event for two completed calls.
C8_Witness ==
    \E t, u \in Threads :
        /\ t # u
        /\ tpc[t] = "done" /\ tpc[u] = "done"
        /\ ReadSameLog(t, u)
        /\ \A v \in Threads \ {t, u} : tpc[v] = "new"
        /\ logfile.kind = "doc"
        /\ Len(logfile.events) = 1
        /\ logfile = tdata[u]

====
